---- MODULE Spec2Model ----
(***************************************************************************)
(* A model of pilbox/app.py: the request handler of the image proxy        *)
(* (ImageHandler.get: validate_request, fetch_image, render_image) and the  *)
(* construction of the application settings (PilboxApplication.__init__).  *)
(*                                                                          *)
(* Representation.  A Python string is a sequence of lexical tokens: the   *)
(* url "http://good.com/a.jpg" is <<"http:", "/", "/", "good.com", "/",    *)
(* "a.jpg">>, the empty string is <<>>, the operation list "resize,rotate" *)
(* is <<"resize", ",", "rotate">> and the number "12" is <<"1", "2">>.     *)
(* Python's None is the distinguished value None, so that every argument   *)
(* and every string setting has one type.                                  *)
(***************************************************************************)
EXTENDS Integers, Sequences, FiniteSets, TLC

VARIABLES
    options,    \* the parsed command-line / config-file options
    settings,   \* the application settings built from them at startup
    phase,      \* per handler: "idle", "fetching" (suspended at the yield), "finished"
    args,       \* per handler: the query arguments of its request
    checks,     \* per handler: the validation checks that ran
    error,      \* per handler: the error the request ended with, or Ok
    fetched,    \* per handler: the urls handed to the http client
    resp,       \* per handler: the response of the fetch
    calls,      \* per handler: the calls made on the image library
    outBody,    \* per handler: the body written
    outHeaders, \* per handler: the headers set
    active,     \* the handlers whose fetch the http client has in flight
    queue,      \* the handlers whose fetch waits in the http client, oldest first
    now,        \* time.time(), in seconds
    accepting,  \* the http server listens for connections
    running,    \* the io loop runs
    callbacks,  \* the callbacks the io loop has yet to run, oldest first
    timeouts,   \* the timeouts the io loop has yet to run, in the order added
    deadlines,  \* the deadline each run of shutdown() computed, in order
    stop,       \* when io_loop.stop() was called, and by which poll chain
    written     \* per handler: the error response write_error wrote

\* The state of the io loop and of the shutdown.
loopVars == <<now, accepting, running, callbacks, timeouts, deadlines, stop>>

vars == <<options, settings, phase, args, checks, error, fetched, resp, calls,
          outBody, outHeaders, active, queue, now, accepting, running,
          callbacks, timeouts, deadlines, stop, written>>

\* Longest operation list a modelled request names.
MaxOps == 2

\* Largest width or height a modelled request names.
MaxDim == 3

-----------------------------------------------------------------------------
(* Python values *)

None == <<"<None>">>

\* Python truthiness of a str-or-None value: None and "" are falsy.
Truthy(v) == v # None /\ v # <<>>

\* str.startswith(prefix)
StartsWith(s, prefix) ==
    /\ Len(s) >= Len(prefix)
    /\ SubSeq(s, 1, Len(prefix)) = prefix

RECURSIVE LStrip(_)
LStrip(s) == IF s # <<>> /\ Head(s) = " " THEN LStrip(Tail(s)) ELSE s

RECURSIVE RStrip(_)
RStrip(s) ==
    IF s # <<>> /\ s[Len(s)] = " " THEN RStrip(SubSeq(s, 1, Len(s) - 1)) ELSE s

\* str.strip()
Strip(s) == RStrip(LStrip(s))

\* str.split(","): the list of the pieces between the commas; "" gives [""].
RECURSIVE SplitFrom(_, _)
SplitFrom(s, cur) ==
    IF s = <<>> THEN <<cur>>
    ELSE IF Head(s) = "," THEN <<cur>> \o SplitFrom(Tail(s), <<>>)
    ELSE SplitFrom(Tail(s), Append(cur, Head(s)))

Split(s) == SplitFrom(s, <<>>)

\* set(list)
ToSet(l) == {l[i] : i \in DOMAIN l}

Digits == {"0", "1", "2", "3", "4", "5", "6", "7", "8", "9"}

DigitVal(d) ==
    CASE d = "0" -> 0 [] d = "1" -> 1 [] d = "2" -> 2 [] d = "3" -> 3
      [] d = "4" -> 4 [] d = "5" -> 5 [] d = "6" -> 6 [] d = "7" -> 7
      [] d = "8" -> 8 [] d = "9" -> 9

IsDigits(s) == s # <<>> /\ s # None /\ \A i \in DOMAIN s : s[i] \in Digits

\* int(s) of a string of decimal digits
RECURSIVE ToInt(_)
ToInt(s) ==
    IF s = <<>> THEN 0
    ELSE 10 * ToInt(SubSeq(s, 1, Len(s) - 1)) + DigitVal(s[Len(s)])

-----------------------------------------------------------------------------
(* urlparse / urljoin, as far as the handler uses them *)

SchemeTokens == {"http:", "https:", "ftp:"}

\* The scheme with its colon, or "" when the url has none.
UrlScheme(u) == IF u # <<>> /\ Head(u) \in SchemeTokens THEN <<Head(u)>> ELSE <<>>

UrlAfterScheme(u) == IF UrlScheme(u) = <<>> THEN u ELSE Tail(u)

HasAuthority(u) == StartsWith(UrlAfterScheme(u), <<"/", "/">>)

RECURSIVE UpToSlash(_)
UpToSlash(s) ==
    IF s = <<>> \/ Head(s) = "/" THEN <<>> ELSE <<Head(s)>> \o UpToSlash(Tail(s))

\* The network location: what follows "//" up to the next "/".
UrlNetloc(u) ==
    IF HasAuthority(u) THEN UpToSlash(Tail(Tail(UrlAfterScheme(u)))) ELSE <<>>

UrlPath(u) ==
    LET rest == UrlAfterScheme(u)
    IN  IF HasAuthority(u)
        THEN SubSeq(rest, 3 + Len(UrlNetloc(u)), Len(rest))
        ELSE rest

\* urlparse(u).hostname: None when the url names no host.
Hostname(u) == IF UrlNetloc(u) = <<>> THEN None ELSE UrlNetloc(u)

\* urljoin(base, u), for the urls that reach it: no host, a path that is
\* empty or starts with "/".
UrlJoin(base, u) ==
    IF u = <<>> THEN base
    ELSE LET scheme == IF UrlScheme(u) = <<>> THEN UrlScheme(base) ELSE UrlScheme(u)
         IN  IF scheme # UrlScheme(base) THEN u
             ELSE IF UrlNetloc(u) # <<>>
                  THEN scheme \o <<"/", "/">> \o UrlNetloc(u) \o UrlPath(u)
                  ELSE scheme \o <<"/", "/">> \o UrlNetloc(base)
                       \o (IF UrlPath(u) = <<>> THEN UrlPath(base) ELSE UrlPath(u))

-----------------------------------------------------------------------------
(* The application settings *)

OPERATIONS == <<<<"region">>, <<"resize">>, <<"rotate">>, <<"noop">>, <<"watermark">>>>

\* The keys PilboxApplication.__init__ copies from the parsed options.
SettingKeys ==
    {"client_name", "client_key", "allowed_hosts", "max_operations",
     "max_resize_height", "max_resize_width", "background", "expand",
     "filter", "format", "mode", "operation", "optimize", "position",
     "progressive", "quality", "max_requests", "implicit_base_url",
     "content_type_from_image", "preserve_exif"}

\* The settings dict built at startup.  allowed_operations falls back to
\* OPERATIONS when the option is empty; the option "retain" is defined but
\* is not among the keys copied.
PilboxApplication(o) ==
    [k \in SettingKeys \cup {"allowed_operations"} |->
        IF k = "allowed_operations"
        THEN (IF o.allowed_operations # {} THEN o.allowed_operations
              ELSE ToSet(OPERATIONS))
        ELSE o[k]]

\* self.settings.get(k, None)
SettingsGet(s, k) == IF k \in DOMAIN s THEN s[k] ELSE None

-----------------------------------------------------------------------------
(* The request's arguments *)

ArgNames ==
    {"url", "op", "w", "h", "mode", "filter", "pos", "bg", "retain", "deg",
     "expand", "rect", "watermark_img", "watermark_txt", "watermark_pos",
     "watermark_txt_size", "watermark_txt_color", "watermark_img_ratio",
     "fmt", "opt", "q", "prog", "exif", "client", "sig"}

\* get_argument(name): None when the argument is absent, else its value
\* stripped of surrounding whitespace (an argument given empty is "").
GetArgument(a, name) == IF a[name] = None THEN None ELSE Strip(a[name])

\* get_argument(name, default)
GetArgumentOr(a, name, default) == IF a[name] = None THEN default ELSE Strip(a[name])

GetOperations(s, a) ==
    Split(GetArgumentOr(a, "op",
              IF Truthy(s.operation) THEN s.operation ELSE <<"resize">>))

GetOptions(s, opts) ==
    [k \in DOMAIN opts |-> IF opts[k] = None THEN SettingsGet(s, k) ELSE opts[k]]

GetResizeOptions(s, a) ==
    GetOptions(s, [mode |-> GetArgument(a, "mode"),
                   filter |-> GetArgument(a, "filter"),
                   position |-> GetArgument(a, "pos"),
                   background |-> GetArgument(a, "bg"),
                   retain |-> GetArgument(a, "retain")])

GetRotateOptions(s, a) ==
    GetOptions(s, [expand |-> GetArgument(a, "expand")])

GetWatermarkOptions(s, a) ==
    GetOptions(s, [watermark_txt |-> GetArgument(a, "watermark_txt"),
                   watermark_img |-> GetArgument(a, "watermark_img"),
                   watermark_pos |-> GetArgument(a, "watermark_pos"),
                   watermark_txt_size |-> GetArgument(a, "watermark_txt_size"),
                   watermark_txt_color |-> GetArgument(a, "watermark_txt_color"),
                   watermark_img_ratio |-> GetArgument(a, "watermark_img_ratio")])

GetSaveOptions(s, a) ==
    GetOptions(s, [format |-> GetArgument(a, "fmt"),
                   optimize |-> GetArgument(a, "opt"),
                   quality |-> GetArgument(a, "q"),
                   progressive |-> GetArgument(a, "prog"),
                   background |-> GetArgument(a, "bg"),
                   preserve_exif |-> GetArgument(a, "exif"),
                   watermark_pos |-> GetArgument(a, "watermark_pos"),
                   watermark_txt_size |-> GetArgument(a, "watermark_txt_size"),
                   watermark_txt_color |-> GetArgument(a, "watermark_txt_color"),
                   watermark_img_ratio |-> GetArgument(a, "watermark_img_ratio")])

\* dict.update
Update(d, e) ==
    [k \in DOMAIN d \cup DOMAIN e |-> IF k \in DOMAIN e THEN e[k] ELSE d[k]]

-----------------------------------------------------------------------------
(* validate_request *)

\* The result of a check: no error, or the error it raises.
Ok == [kind |-> "OK", msg |-> ""]

Raise(kind, msg) == [kind |-> kind, msg |-> msg]

ValidateOperation(s, a) ==
    LET operations == ToSet(GetOperations(s, a))
    IN  IF ~(operations \subseteq s.allowed_operations)
        THEN Raise("OperationError", "Unsupported operation")
        ELSE IF Cardinality(operations) > s.max_operations
        THEN Raise("OperationError", "Too many operations")
        ELSE Ok

\* A mutant: a root-relative url is accepted without an implicit base url.
ValidateUrlAnyRelative(s, a) ==
    LET url == GetArgument(a, "url")
    IN  IF ~Truthy(url) THEN Raise("UrlError", "Missing url")
        ELSE IF StartsWith(url, <<"http:", "/", "/">>)
                \/ StartsWith(url, <<"https:", "/", "/">>) THEN Ok
        ELSE IF StartsWith(url, <<"/">>) THEN Ok
        ELSE Raise("UrlError", "Unsupported protocol")

ValidateUrl(s, a) ==
    LET url == GetArgument(a, "url")
    IN  IF ~Truthy(url) THEN Raise("UrlError", "Missing url")
        ELSE IF StartsWith(url, <<"http:", "/", "/">>)
                \/ StartsWith(url, <<"https:", "/", "/">>) THEN Ok
        ELSE IF Truthy(s.implicit_base_url) /\ StartsWith(url, <<"/">>) THEN Ok
        ELSE Raise("UrlError", "Unsupported protocol")

\* pilbox.signature.verify_signature(key, query): the query carries a
\* signature argument that was derived from the same key.
VerifySignature(key, a) == a["sig"] = <<"signed-with">> \o key

ValidateSignature(s, a) ==
    IF Truthy(s.client_key) /\ ~VerifySignature(s.client_key, a)
    THEN Raise("SignatureError", "Invalid signature")
    ELSE Ok

ValidateClient(s, a) ==
    IF Truthy(s.client_name) /\ GetArgument(a, "client") # s.client_name
    THEN Raise("ClientError", "Invalid client")
    ELSE Ok

\* A mutant: a url that names no host is not checked against the allow-list.
ValidateHostSkipsRelative(s, a) ==
    LET hosts == SettingsGet(s, "allowed_hosts")
    IN  IF hosts # {} /\ Hostname(GetArgument(a, "url")) # None
           /\ Hostname(GetArgument(a, "url")) \notin hosts
        THEN Raise("HostError", "Invalid host")
        ELSE Ok

ValidateHost(s, a) ==
    LET hosts == SettingsGet(s, "allowed_hosts")
    IN  IF hosts # {} /\ Hostname(GetArgument(a, "url")) \notin hosts
        THEN Raise("HostError", "Invalid host")
        ELSE Ok

\* Image.validate_dimensions(w, h): each of width and height is absent or a
\* non-negative number.
ValidateDimensions(w, h) ==
    IF Truthy(w) /\ ~IsDigits(w) THEN Raise("DimensionsError", "Invalid width")
    ELSE IF Truthy(h) /\ ~IsDigits(h) THEN Raise("DimensionsError", "Invalid height")
    ELSE Ok

\* Image.validate_degree(deg)
ValidateDegree(deg) ==
    IF deg \in {<<"9", "0">>, <<"auto">>} THEN Ok
    ELSE Raise("DimensionsError", "Invalid degree")

\* Image.validate_rectangle(rect): four comma-separated numbers.
ValidateRectangle(rect) ==
    IF Truthy(rect) /\ Len(Split(rect)) = 4
       /\ \A i \in DOMAIN Split(rect) : IsDigits(Split(rect)[i])
    THEN Ok
    ELSE Raise("DimensionsError", "Invalid rectangle")

\* Image.validate_options(opts): the option-sanity check of the merged options.
ValidateOptions(opts) ==
    IF \E k \in DOMAIN opts : opts[k] = <<"bad">>
    THEN Raise("OptionsError", "Invalid option")
    ELSE Ok

\* A mutant: the height is not compared with max_resize_height.
ValidateResizeWidthOnly(s, a) ==
    LET w == GetArgument(a, "w")
        h == GetArgument(a, "h")
    IN  IF ValidateDimensions(w, h) # Ok THEN ValidateDimensions(w, h)
        ELSE IF Truthy(w) /\ ToInt(w) > s.max_resize_width
        THEN Raise("DimensionsError", "Exceeds maximum allowed width")
        ELSE Ok

\* Lines 186-193: the checks of a request that names resize.
ValidateResize(s, a) ==
    LET w == GetArgument(a, "w")
        h == GetArgument(a, "h")
    IN  IF ValidateDimensions(w, h) # Ok THEN ValidateDimensions(w, h)
        ELSE IF Truthy(w) /\ ToInt(w) > s.max_resize_width
        THEN Raise("DimensionsError", "Exceeds maximum allowed width")
        ELSE IF Truthy(h) /\ ToInt(h) > s.max_resize_height
        THEN Raise("DimensionsError", "Exceeds maximum allowed height")
        ELSE Ok

\* Lines 199-207: the checks of a request that names watermark.
ValidateWatermark(s, a) ==
    LET url == GetArgument(a, "watermark_img")
        text == GetArgument(a, "watermark_txt")
    IN  IF Truthy(url) /\ ~StartsWith(url, <<"http:", "/", "/">>)
           /\ ~StartsWith(url, <<"https:", "/", "/">>)
        THEN Raise("DimensionsError", "Unsupported protocol")
        ELSE IF text # None /\ ~Truthy(text)
        THEN Raise("DimensionsError", "Watermark text cannot be empty")
        ELSE IF text = None /\ url = None
        THEN Raise("DimensionsError",
                   "Watermark requires either watermark_img or watermark_txt")
        ELSE Ok

\* Lines 184-207: the per-operation checks, in the order of the code.
ValidateArguments(s, a) ==
    LET ops == ToSet(GetOperations(s, a))
    IN  IF <<"resize">> \in ops /\ ValidateResize(s, a) # Ok
        THEN ValidateResize(s, a)
        ELSE IF <<"rotate">> \in ops /\ ValidateDegree(GetArgument(a, "deg")) # Ok
        THEN ValidateDegree(GetArgument(a, "deg"))
        ELSE IF <<"region">> \in ops /\ ValidateRectangle(GetArgument(a, "rect")) # Ok
        THEN ValidateRectangle(GetArgument(a, "rect"))
        ELSE IF <<"watermark">> \in ops /\ ValidateWatermark(s, a) # Ok
        THEN ValidateWatermark(s, a)
        ELSE Ok

\* A mutant: only the save options are handed to the option check.
MergedOptionsSaveOnly(s, a) == GetSaveOptions(s, a)

\* The options validate_request hands to Image.validate_options: the save
\* options, updated with the resize and rotate options of a request that
\* names those operations.
MergedOptions(s, a) ==
    LET ops == ToSet(GetOperations(s, a))
        o1 == GetSaveOptions(s, a)
        o2 == IF <<"resize">> \in ops THEN Update(o1, GetResizeOptions(s, a)) ELSE o1
    IN  IF <<"rotate">> \in ops THEN Update(o2, GetRotateOptions(s, a)) ELSE o2

\* The checks of validate_request in the order they run; each is evaluated
\* only when those before it raised nothing.
CheckNames ==
    <<"operation", "url", "signature", "client", "host", "arguments", "options">>

\* A mutant: the client is checked before the signature.
CheckResultClientFirst(s, a, i) ==
    CASE i = 1 -> ValidateOperation(s, a)
      [] i = 2 -> ValidateUrl(s, a)
      [] i = 3 -> ValidateClient(s, a)
      [] i = 4 -> ValidateSignature(s, a)
      [] i = 5 -> ValidateHost(s, a)
      [] i = 6 -> ValidateArguments(s, a)
      [] i = 7 -> ValidateOptions(MergedOptions(s, a))

CheckResult(s, a, i) ==
    CASE i = 1 -> ValidateOperation(s, a)
      [] i = 2 -> ValidateUrl(s, a)
      [] i = 3 -> ValidateSignature(s, a)
      [] i = 4 -> ValidateClient(s, a)
      [] i = 5 -> ValidateHost(s, a)
      [] i = 6 -> ValidateArguments(s, a)
      [] i = 7 -> ValidateOptions(MergedOptions(s, a))

RECURSIVE RunChecks(_, _, _)
RunChecks(s, a, i) ==
    IF i > Len(CheckNames) THEN [result |-> Ok, ran |-> CheckNames]
    ELSE IF CheckResult(s, a, i) # Ok
    THEN [result |-> CheckResult(s, a, i), ran |-> SubSeq(CheckNames, 1, i)]
    ELSE RunChecks(s, a, i + 1)

\* validate_request: the error raised (or Ok) and the checks that ran.
ValidateRequest(s, a) == RunChecks(s, a, 1)

-----------------------------------------------------------------------------
(* fetch_image *)

\* The url handed to the http client (lines 213-216).
FetchUrl(s, a) ==
    LET url == GetArgument(a, "url")
    IN  IF Truthy(s.implicit_base_url) /\ Hostname(url) = None
        THEN UrlJoin(s.implicit_base_url, url)
        ELSE url

-----------------------------------------------------------------------------
(* render_image *)

Call(name, argv, opts) == [name |-> name, argv |-> argv, opts |-> opts]

\* A call without keyword options.
NoOptions == [k \in {} |-> None]

\* Image(resp.buffer)
ImageDecode(buffer) == Call("decode", <<buffer>>, NoOptions)

ImageRegion(s, a) ==
    Call("region", Split(GetArgument(a, "rect")), NoOptions)

ImageResize(s, a) ==
    Call("resize", <<GetArgument(a, "w"), GetArgument(a, "h")>>,
         GetResizeOptions(s, a))

ImageRotate(s, a) ==
    Call("rotate", <<GetArgument(a, "deg")>>, GetRotateOptions(s, a))

ImageWatermark(s, a) ==
    Call("watermark", <<GetArgument(a, "watermark_pos")>>,
         GetWatermarkOptions(s, a))

ImageSave(s, a) == Call("save", <<>>, GetSaveOptions(s, a))

\* A mutant: each operation named is applied once, in a fixed order.
TransformsCanonical(s, a, ops) ==
    (IF <<"resize">> \in ToSet(ops) THEN <<ImageResize(s, a)>> ELSE <<>>)
    \o (IF <<"rotate">> \in ToSet(ops) THEN <<ImageRotate(s, a)>> ELSE <<>>)
    \o (IF <<"region">> \in ToSet(ops) THEN <<ImageRegion(s, a)>> ELSE <<>>)
    \o (IF <<"watermark">> \in ToSet(ops) THEN <<ImageWatermark(s, a)>> ELSE <<>>)

\* The loop of _process_response: one call per list entry that names a
\* transform, in list order.
RECURSIVE Transforms(_, _, _)
Transforms(s, a, ops) ==
    IF ops = <<>> THEN <<>>
    ELSE (IF Head(ops) = <<"resize">> THEN <<ImageResize(s, a)>>
          ELSE IF Head(ops) = <<"rotate">> THEN <<ImageRotate(s, a)>>
          ELSE IF Head(ops) = <<"region">> THEN <<ImageRegion(s, a)>>
          ELSE IF Head(ops) = <<"watermark">> THEN <<ImageWatermark(s, a)>>
          ELSE <<>>)
         \o Transforms(s, a, Tail(ops))

\* The format of an image as the decoder reports it.
BufferFormat(buffer) ==
    IF buffer = <<"png-bytes">> THEN <<"PNG">> ELSE <<"JPEG">>

\* image.save(**opts): the encoded bytes of the image after the calls made.
Encoded(buffer, cs) ==
    <<"encoded">> \o buffer \o [i \in 1..Len(cs) |-> cs[i].name]

\* image.img.format after save: the format asked for, else the source's.
SavedFormat(s, a, r) ==
    IF Truthy(GetSaveOptions(s, a).format) THEN GetSaveOptions(s, a).format
    ELSE BufferFormat(r.buffer)

\* The calls on the image library of lines 259-270 when none of them raises.
PipelineCalls(s, a, r) ==
    <<ImageDecode(r.buffer)>> \o Transforms(s, a, GetOperations(s, a))
    \o <<ImageSave(s, a)>>

\* A mutant: the pass-through is taken only for the list ["noop"].
ProcessResponseOnlyNoop(s, a, r) ==
    IF GetOperations(s, a) = <<<<"noop">>>>
    THEN [outfile |-> r.buffer, format |-> None, calls |-> <<>>]
    ELSE [outfile |-> Encoded(r.buffer, PipelineCalls(s, a, r)),
          format |-> SavedFormat(s, a, r),
          calls |-> PipelineCalls(s, a, r)]

\* A mutant: the pass-through is taken only when noop is named first.
ProcessResponseNoopFirst(s, a, r) ==
    IF Head(GetOperations(s, a)) = <<"noop">>
    THEN [outfile |-> r.buffer, format |-> None, calls |-> <<>>]
    ELSE [outfile |-> Encoded(r.buffer, PipelineCalls(s, a, r)),
          format |-> SavedFormat(s, a, r),
          calls |-> PipelineCalls(s, a, r)]

\* _process_response: (outfile, outfile_format), and the calls it made on
\* the image library.
ProcessResponse(s, a, r) ==
    IF <<"noop">> \in ToSet(GetOperations(s, a))
    THEN [outfile |-> r.buffer, format |-> None, calls |-> <<>>]
    ELSE [outfile |-> Encoded(r.buffer, PipelineCalls(s, a, r)),
          format |-> SavedFormat(s, a, r),
          calls |-> PipelineCalls(s, a, r)]

FORWARD_HEADERS == {"Cache-Control", "Expires", "Last-Modified"}

HeaderNames == {"Content-Type"} \cup FORWARD_HEADERS

\* str.lower() of a format name
Lower(f) ==
    CASE f = <<"PNG">> -> <<"png">>
      [] f = <<"JPEG">> -> <<"jpeg">>
      [] f = <<"GIF">> -> <<"gif">>
      [] OTHER -> f

\* _FORMAT_TO_MIME.get(f)
FormatToMime(f) ==
    CASE f = <<"gif">> -> <<"image/gif">>
      [] f = <<"jpeg">> -> <<"image/jpeg">>
      [] f = <<"jpg">> -> <<"image/jpeg">>
      [] f = <<"png">> -> <<"image/png">>
      [] f = <<"webp">> -> <<"image/webp">>
      [] f = <<"tiff">> -> <<"image/tiff">>
      [] OTHER -> None

NoHeaders == [k \in HeaderNames |-> None]

\* A mutant: the Content-Type is taken from the table whether or not the
\* pipeline declared a format.
SetHeadersAnyFormat(s, a, headers, format) ==
    [k \in HeaderNames |->
        IF k = "Content-Type"
        THEN (IF Truthy(GetArgument(a, "fmt")) \/ Truthy(s.format)
                 \/ s.content_type_from_image = TRUE
              THEN FormatToMime(Lower(format))
              ELSE headers["Content-Type"])
        ELSE (IF Truthy(headers[k]) THEN headers[k] ELSE None)]

\* _set_headers: the headers the handler sets (None: not set by it).
SetHeaders(s, a, headers, format) ==
    [k \in HeaderNames |->
        IF k = "Content-Type"
        THEN (IF Truthy(format)
                 /\ (Truthy(GetArgument(a, "fmt")) \/ Truthy(s.format)
                     \/ s.content_type_from_image = TRUE)
              THEN FormatToMime(Lower(format))
              ELSE headers["Content-Type"])
        ELSE (IF Truthy(headers[k]) THEN headers[k] ELSE None)]

\* Line 295 when the table has no entry for the format: set_header is given
\* None, which tornado refuses with a TypeError.
UnsupportedHeader(s, a, format) ==
    /\ Truthy(format)
    /\ (Truthy(GetArgument(a, "fmt")) \/ Truthy(s.format)
        \/ s.content_type_from_image = TRUE)
    /\ FormatToMime(Lower(format)) = None

-----------------------------------------------------------------------------
(* The configurations and requests explored *)

Str(tok) == <<tok>>

\* ",".join(ops)
RECURSIVE Join(_)
Join(ops) ==
    IF ops = <<>> THEN <<>>
    ELSE IF Len(ops) = 1 THEN Head(ops)
    ELSE Head(ops) \o <<",">> \o Join(Tail(ops))

\* d with those of its fields that e names replaced
With(d, e) == [k \in DOMAIN d |-> IF k \in DOMAIN e THEN e[k] ELSE d[k]]

Number(n) == <<CHOOSE d \in Digits : DigitVal(d) = n>>

BaseUrl == <<"http:", "/", "/", "base.com">>
GoodUrl == <<"http:", "/", "/", "good.com", "/", "a.jpg">>
EvilUrl == <<"http:", "/", "/", "evil.com", "/", "a.jpg">>
FtpUrl == <<"ftp:", "/", "/", "good.com", "/", "a.jpg">>

Urls ==
    {None, <<>>, <<" ">>, GoodUrl, EvilUrl, FtpUrl,
     <<"https:", "/", "/", "good.com", "/", "a.jpg">>,
     <<" ">> \o GoodUrl \o <<" ">>,
     <<"/", "a.jpg">>,
     <<"/", "/", "evil.com", "/", "a.jpg">>,
     <<"/", "/", "good.com", "/", "a.jpg">>,
     <<"good.com", "/", "a.jpg">>,
     <<"http:", "/", "/", "/", "a.jpg">>,
     <<"https:", "/", "/", "/", "a.jpg">>}

\* The options as tornado defines them (lines 52-97) when nothing is configured.
DefaultOptions ==
    [client_name |-> None, client_key |-> None, allowed_hosts |-> {},
     allowed_operations |-> {}, max_operations |-> 10,
     max_resize_height |-> 15000, max_resize_width |-> 15000,
     max_requests |-> 40, implicit_base_url |-> None, content_type_from_image |-> FALSE,
     background |-> None, expand |-> None, filter |-> None, format |-> None,
     mode |-> None, operation |-> None, optimize |-> None, position |-> None,
     progressive |-> None, quality |-> None, retain |-> None,
     preserve_exif |-> None]

Strict ==
    [client_name |-> Str("c1"), client_key |-> Str("k1"),
     allowed_hosts |-> {Str("good.com")},
     allowed_operations |-> {Str("resize"), Str("rotate"), Str("noop")},
     max_operations |-> 1, max_resize_height |-> 1, max_resize_width |-> 2]

SecurityOptions ==
    {Strict,
     Update(Strict, [implicit_base_url |-> BaseUrl]),
     Update(Strict, [max_operations |-> 2]),
     [allowed_hosts |-> {Str("good.com")}],
     [allowed_hosts |-> {Str("good.com"), Str("base.com")}, implicit_base_url |-> BaseUrl],
     [implicit_base_url |-> BaseUrl],
     [implicit_base_url |-> <<"https:", "/", "/", "base.com">>],
     [client_name |-> Str("c1")],
     [client_key |-> Str("k1")],
     [max_operations |-> 1],
     [max_resize_height |-> 1, max_resize_width |-> 2],
     [allowed_operations |-> {Str("resize"), Str("watermark")}, max_operations |-> 2]}

DefaultsOptions ==
    {[operation |-> Str("noop")],
     [operation |-> Join(<<Str("rotate"), Str("resize")>>), expand |-> Str("1")],
     [operation |-> Str("rotate"), max_resize_width |-> 2],
     [format |-> Str("png")],
     [content_type_from_image |-> TRUE],
     [mode |-> Str("crop"), filter |-> Str("nearest"), position |-> Str("top"),
      background |-> Str("fff"), retain |-> Str("80"), expand |-> Str("1"),
      optimize |-> Str("1"), quality |-> Str("90"), progressive |-> Str("1"),
      preserve_exif |-> Str("1"), format |-> Str("png")],
     [mode |-> Str("bad")]}

OptionSets ==
    {DefaultOptions} \cup
    {With(DefaultOptions, o) : o \in SecurityOptions \cup DefaultsOptions}

\* The operation names requests use: the five of the program and one unknown.
OpTokens == ToSet(OPERATIONS) \cup {Str("blur")}

RECURSIVE OpLists(_)
OpLists(n) ==
    IF n = 0 THEN {<<>>}
    ELSE OpLists(n - 1) \cup
         {Append(l, o) : l \in {x \in OpLists(n - 1) : Len(x) = n - 1}, o \in OpTokens}

OpStrings ==
    {None, <<>>, <<"resize", ",">>} \cup {Join(l) : l \in OpLists(MaxOps) \ {<<>>}}

Dims ==
    {None, <<>>, <<"x">>, <<"2", "0", "0", "0", "0">>} \cup {Number(n) : n \in 0..MaxDim}

Rect == <<"0", ",", "0", ",", "1", ",", "1">>

\* A request every check accepts under every configuration explored.
NoArgs == [n \in ArgNames |-> None]

BaseArgs ==
    With(NoArgs, [url |-> GoodUrl, client |-> Str("c1"),
                  sig |-> <<"signed-with", "k1">>, w |-> Number(1), h |-> Number(1),
                  deg |-> <<"9", "0">>, rect |-> Rect, watermark_txt |-> Str("hi")])

OptionArgs ==
    {"mode", "filter", "pos", "bg", "retain", "expand", "watermark_pos",
     "watermark_txt_size", "watermark_txt_color", "watermark_img_ratio",
     "fmt", "opt", "q", "prog", "exif"}

PipelineRequests == {With(BaseArgs, [op |-> o]) : o \in OpStrings}

FormatRequests ==
    {With(BaseArgs, [op |-> o, fmt |-> f]) :
        o \in {None, Str("noop"), Str("rotate"), Join(<<Str("resize"), Str("noop")>>)},
        f \in {<<>>, Str("png"), Str("bmp")}}

SecurityRequests ==
    {With(BaseArgs, [op |-> o, url |-> u, sig |-> g, client |-> c, w |-> w, mode |-> m]) :
        o \in {None, Str("blur"), Join(<<Str("resize"), Str("rotate")>>)},
        u \in {GoodUrl, EvilUrl, FtpUrl},
        g \in {None, <<"signed-with", "k1">>},
        c \in {Str("c1"), Str("c2")},
        w \in {Number(1), <<"2", "0", "0", "0", "0">>},
        m \in {None, Str("bad")}}

UrlRequests ==
    {With(BaseArgs, [op |-> o, url |-> u]) : o \in {None, Str("noop")}, u \in Urls}

ResizeRequests ==
    {With(BaseArgs, [op |-> o, w |-> w, h |-> h]) :
        o \in {None, Str("rotate"), Join(<<Str("resize"), Str("noop")>>)},
        w \in Dims, h \in Dims}

WatermarkRequests ==
    {With(BaseArgs, [op |-> o, watermark_img |-> i, watermark_txt |-> x]) :
        o \in {Str("watermark"), Join(<<Str("watermark"), Str("resize")>>)},
        i \in {None, <<>>, GoodUrl, FtpUrl, <<"/", "logo.png">>,
               <<"https:", "/", "/", "good.com", "/", "logo.png">>},
        x \in {None, <<>>, <<" ">>, Str("hi")}}

OptionRequests ==
    {With(BaseArgs, [op |-> o]) :
        o \in {Join(<<Str("resize"), Str("rotate")>>), Str("watermark")}}
    \cup
    {[n \in ArgNames |-> IF n = f THEN v
                         ELSE IF n = "op" THEN o ELSE BaseArgs[n]] :
        f \in OptionArgs, v \in {<<>>, Str("v")},
        o \in {Join(<<Str("resize"), Str("rotate")>>), Str("watermark")}}

Requests ==
    PipelineRequests \cup FormatRequests \cup SecurityRequests \cup UrlRequests \cup ResizeRequests
    \cup WatermarkRequests \cup OptionRequests

\* What the http client can return for a fetch.
Responses ==
    {[buffer |-> b,
      headers |-> [k \in HeaderNames |-> IF k = "Content-Type" THEN c ELSE None]] :
        b \in {Str("jpeg-bytes"), Str("png-bytes")}, c \in {None, Str("image/jpeg")}}

\* The response followed when the image library raises.
FaultyResponse ==
    [buffer |-> Str("jpeg-bytes"),
     headers |-> [k \in HeaderNames |-> IF k = "Content-Type" THEN Str("image/jpeg") ELSE None]]

-----------------------------------------------------------------------------
(* The handler *)

\* The handlers whose requests are followed.
Handlers == {"h1"}

NoResponse == [buffer |-> <<>>, headers |-> NoHeaders]

\* An uncaught exception that is no PilboxError: tornado answers 500.
ServerError == Raise("Exception", "")

\* A mutant: the http client starts the newest waiting fetch first.
RECURSIVE ProcessQueueNewestFirst(_, _, _)
ProcessQueueNewestFirst(q, act, max_clients) ==
    IF q # <<>> /\ Cardinality(act) < max_clients
    THEN ProcessQueueNewestFirst(SubSeq(q, 1, Len(q) - 1),
                                 act \cup {q[Len(q)]}, max_clients)
    ELSE [queue |-> q, active |-> act]

\* The http client starts waiting fetches, oldest first, while fewer than
\* max_clients are in flight.
RECURSIVE ProcessQueue(_, _, _)
ProcessQueue(q, act, max_clients) ==
    IF q # <<>> /\ Cardinality(act) < max_clients
    THEN ProcessQueue(Tail(q), act \cup {Head(q)}, max_clients)
    ELSE [queue |-> q, active |-> act]

\* client.fetch(url, ...) of lines 218-228 for handler h: the fetch joins
\* the queue of the client built with max_clients = max_requests.
ClientFetch(h) ==
    /\ queue' = ProcessQueue(Append(queue, h), active, settings.max_requests).queue
    /\ active' = ProcessQueue(Append(queue, h), active, settings.max_requests).active

\* The fetch of h ends with a response or an error: its client is free for
\* the oldest waiting fetch.
ClientRelease(h) ==
    /\ queue' = ProcessQueue(queue, active \ {h}, settings.max_requests).queue
    /\ active' = ProcessQueue(queue, active \ {h}, settings.max_requests).active

\* The fetch of h times out while it waits: it leaves the queue.
ClientTimeout(h) ==
    /\ queue' = SelectSeq(queue, LAMBDA x : x # h)
    /\ active' = active

\* The errors of pilbox.errors, all of them subclasses of PilboxError; any
\* other exception is none.
PilboxErrors ==
    {"UrlError", "OperationError", "SignatureError", "ClientError",
     "HostError", "DimensionsError", "FetchError", "OptionsError"}

\* The status an exception is answered with: the one its class carries for
\* a PilboxError, 500 for an exception that is no HTTPError.
StatusOf(err) ==
    IF err.kind \in PilboxErrors THEN <<"status-of", err.kind>> ELSE <<"500">>

\* err.get_code()
GetCode(err) == <<"code-of", err.kind>>

\* No error response.
NotWritten == [status |-> None, type |-> None, body |-> [k \in {} |-> None]]

\* A mutant: every exception is answered with the JSON body.
WriteErrorAlwaysJson(err) ==
    [status |-> StatusOf(err),
     type |-> <<"application/json">>,
     body |-> [k \in {"status_code", "error_code", "error"} |->
                 CASE k = "status_code" -> StatusOf(err)
                   [] k = "error_code" -> GetCode(err)
                   [] OTHER -> <<err.msg>>]]

\* write_error(status_code, exc_info): a PilboxError is answered with a
\* JSON body of three fields; anything else is left to tornado, which
\* answers with its page for the status and no field of the exception.
WriteError(err) ==
    IF err.kind \in PilboxErrors
    THEN [status |-> StatusOf(err),
          type |-> <<"application/json">>,
          body |-> [k \in {"status_code", "error_code", "error"} |->
                      CASE k = "status_code" -> StatusOf(err)
                        [] k = "error_code" -> GetCode(err)
                        [] OTHER -> <<err.msg>>]]
    ELSE [status |-> StatusOf(err),
          type |-> <<"text/html">>,
          body |-> [k \in {} |-> None]]

\* No io_loop.stop() yet.
NoStop == [at |-> -1, chain |-> 0]

\* The server listens, the io loop runs, and no signal has been received.
LoopInit ==
    /\ now = 0
    /\ accepting = TRUE
    /\ running = TRUE
    /\ callbacks = <<>>
    /\ timeouts = <<>>
    /\ deadlines = <<>>
    /\ stop = NoStop

\* The server after startup: the options are parsed, the settings built from
\* them, and no request is being handled.
Init ==
    /\ options \in OptionSets
    /\ settings = PilboxApplication(options)
    /\ phase = [h \in Handlers |-> "idle"]
    /\ args = [h \in Handlers |-> NoArgs]
    /\ checks = [h \in Handlers |-> <<>>]
    /\ error = [h \in Handlers |-> Ok]
    /\ fetched = [h \in Handlers |-> <<>>]
    /\ resp = [h \in Handlers |-> NoResponse]
    /\ calls = [h \in Handlers |-> <<>>]
    /\ outBody = [h \in Handlers |-> <<>>]
    /\ outHeaders = [h \in Handlers |-> NoHeaders]
    /\ written = [h \in Handlers |-> NotWritten]
    /\ active = {}
    /\ queue = <<>>
    /\ LoopInit

\* A mutant: the fetch is started before the request is validated.
GetFetchesFirst(h, a) ==
    /\ phase[h] = "idle"
    /\ accepting /\ running
    /\ args' = [args EXCEPT ![h] = a]
    /\ checks' = [checks EXCEPT ![h] = ValidateRequest(settings, a).ran]
    /\ error' = [error EXCEPT ![h] = ValidateRequest(settings, a).result]
    /\ fetched' = [fetched EXCEPT ![h] = Append(@, FetchUrl(settings, a))]
    /\ IF ValidateRequest(settings, a).result = Ok
       THEN /\ phase' = [phase EXCEPT ![h] = "fetching"]
            /\ ClientFetch(h)
       ELSE /\ phase' = [phase EXCEPT ![h] = "finished"]
            /\ UNCHANGED <<active, queue>>
    /\ written' = [written EXCEPT ![h] =
            IF ValidateRequest(settings, a).result = Ok THEN NotWritten
            ELSE WriteError(ValidateRequest(settings, a).result)]
    /\ UNCHANGED loopVars
    /\ UNCHANGED <<options, settings, resp, calls, outBody, outHeaders>>

\* ImageHandler.get up to its yield: validate_request raises and the request
\* ends, or fetch_image hands the url to the http client and the handler waits.
Get(h, a) ==
    /\ phase[h] = "idle"
    /\ accepting /\ running
    /\ args' = [args EXCEPT ![h] = a]
    /\ checks' = [checks EXCEPT ![h] = ValidateRequest(settings, a).ran]
    /\ error' = [error EXCEPT ![h] = ValidateRequest(settings, a).result]
    /\ IF ValidateRequest(settings, a).result = Ok
       THEN /\ phase' = [phase EXCEPT ![h] = "fetching"]
            /\ fetched' = [fetched EXCEPT ![h] = Append(@, FetchUrl(settings, a))]
            /\ ClientFetch(h)
       ELSE /\ phase' = [phase EXCEPT ![h] = "finished"]
            /\ UNCHANGED <<fetched, active, queue>>
    /\ written' = [written EXCEPT ![h] =
            IF ValidateRequest(settings, a).result = Ok THEN NotWritten
            ELSE WriteError(ValidateRequest(settings, a).result)]
    /\ UNCHANGED loopVars
    /\ UNCHANGED <<options, settings, resp, calls, outBody, outHeaders>>

\* A mutant: a failed fetch is made again.
FetchFailedRetries(h, cause) ==
    /\ phase[h] = "fetching"
    /\ running
    /\ cause \in {"gaierror", "HTTPError", "timeout"}
    /\ h \in active
    /\ fetched' = [fetched EXCEPT ![h] = Append(@, FetchUrl(settings, args[h]))]
    /\ UNCHANGED written
    /\ UNCHANGED loopVars
    /\ UNCHANGED <<options, settings, phase, args, checks, error, resp, calls,
                   outBody, outHeaders, active, queue>>

\* The fetch raises socket.gaierror or tornado's HTTPError (an error status,
\* or a timeout, which can also end a fetch that still waits in the
\* client): fetch_image raises FetchError and nothing is rendered.
FetchFailed(h, cause) ==
    /\ phase[h] = "fetching"
    /\ running
    /\ cause \in {"gaierror", "HTTPError", "timeout"}
    /\ IF h \in active THEN ClientRelease(h)
       ELSE cause = "timeout" /\ ClientTimeout(h)
    /\ phase' = [phase EXCEPT ![h] = "finished"]
    /\ error' = [error EXCEPT ![h] = Raise("FetchError", "")]
    /\ written' = [written EXCEPT ![h] = WriteError(Raise("FetchError", ""))]
    /\ UNCHANGED loopVars
    /\ UNCHANGED <<options, settings, args, checks, fetched, resp, calls,
                   outBody, outHeaders>>

\* A mutant: render_image works on the arguments of whichever request is
\* open.
RenderAnyArguments(h, r) ==
    /\ phase[h] = "fetching"
    /\ running
    /\ h \in active
    /\ ClientRelease(h)
    /\ phase' = [phase EXCEPT ![h] = "finished"]
    /\ resp' = [resp EXCEPT ![h] = r]
    /\ \E g \in DOMAIN args :
        /\ phase[g] = "fetching"
        /\ calls' = [calls EXCEPT ![h] = ProcessResponse(settings, args[g], r).calls]
        /\ outBody' = [outBody EXCEPT ![h] = ProcessResponse(settings, args[g], r).outfile]
        /\ outHeaders' = [outHeaders EXCEPT ![h] =
                SetHeaders(settings, args[g], r.headers,
                           ProcessResponse(settings, args[g], r).format)]
    /\ UNCHANGED written
    /\ UNCHANGED loopVars
    /\ UNCHANGED <<options, settings, args, checks, error, fetched>>

\* The fetch returns and render_image runs to its end.
Render(h, r) ==
    /\ phase[h] = "fetching"
    /\ running
    /\ h \in active
    /\ ClientRelease(h)
    /\ ~UnsupportedHeader(settings, args[h],
                          ProcessResponse(settings, args[h], r).format)
    /\ phase' = [phase EXCEPT ![h] = "finished"]
    /\ resp' = [resp EXCEPT ![h] = r]
    /\ calls' = [calls EXCEPT ![h] = ProcessResponse(settings, args[h], r).calls]
    /\ outBody' = [outBody EXCEPT ![h] = ProcessResponse(settings, args[h], r).outfile]
    /\ outHeaders' = [outHeaders EXCEPT ![h] =
            SetHeaders(settings, args[h], r.headers,
                       ProcessResponse(settings, args[h], r).format)]
    /\ UNCHANGED written
    /\ UNCHANGED loopVars
    /\ UNCHANGED <<options, settings, args, checks, error, fetched>>

\* The fetch returns and the k-th call on the image library raises: the
\* pipeline stops there and nothing is written.
RenderFault(h, r, k) ==
    /\ phase[h] = "fetching"
    /\ running
    /\ h \in active
    /\ ClientRelease(h)
    /\ k \in 1..Len(ProcessResponse(settings, args[h], r).calls)
    /\ phase' = [phase EXCEPT ![h] = "finished"]
    /\ resp' = [resp EXCEPT ![h] = r]
    /\ calls' = [calls EXCEPT ![h] =
            SubSeq(ProcessResponse(settings, args[h], r).calls, 1, k)]
    /\ error' = [error EXCEPT ![h] = ServerError]
    /\ written' = [written EXCEPT ![h] = WriteError(ServerError)]
    /\ UNCHANGED loopVars
    /\ UNCHANGED <<options, settings, args, checks, fetched, outBody, outHeaders>>

\* The fetch returns, the pipeline runs to its end and the Content-Type of
\* its format is not in the table: set_header raises before anything is
\* written.
RenderHeaderFault(h, r) ==
    /\ phase[h] = "fetching"
    /\ running
    /\ h \in active
    /\ ClientRelease(h)
    /\ UnsupportedHeader(settings, args[h],
                         ProcessResponse(settings, args[h], r).format)
    /\ phase' = [phase EXCEPT ![h] = "finished"]
    /\ resp' = [resp EXCEPT ![h] = r]
    /\ calls' = [calls EXCEPT ![h] = ProcessResponse(settings, args[h], r).calls]
    /\ error' = [error EXCEPT ![h] = ServerError]
    /\ written' = [written EXCEPT ![h] = WriteError(ServerError)]
    /\ UNCHANGED loopVars
    /\ UNCHANGED <<options, settings, args, checks, fetched, outBody, outHeaders>>

\* The response is sent and the handler is free for the next request.
Finish(h) ==
    /\ phase[h] = "finished"
    /\ running
    /\ phase' = [phase EXCEPT ![h] = "idle"]
    /\ args' = [args EXCEPT ![h] = NoArgs]
    /\ checks' = [checks EXCEPT ![h] = <<>>]
    /\ error' = [error EXCEPT ![h] = Ok]
    /\ fetched' = [fetched EXCEPT ![h] = <<>>]
    /\ resp' = [resp EXCEPT ![h] = NoResponse]
    /\ calls' = [calls EXCEPT ![h] = <<>>]
    /\ outBody' = [outBody EXCEPT ![h] = <<>>]
    /\ outHeaders' = [outHeaders EXCEPT ![h] = NoHeaders]
    /\ written' = [written EXCEPT ![h] = NotWritten]
    /\ UNCHANGED loopVars
    /\ UNCHANGED <<options, settings, active, queue>>

Next ==
    \E h \in Handlers :
        \/ \E a \in Requests : Get(h, a)
        \/ \E c \in {"gaierror", "HTTPError", "timeout"} : FetchFailed(h, c)
        \/ \E r \in Responses : Render(h, r)
        \/ \E k \in 1..(MaxOps + 2) : RenderFault(h, FaultyResponse, k)
        \/ \E r \in Responses : RenderHeaderFault(h, r)
        \/ Finish(h)

Spec == Init /\ [][Next]_vars

-----------------------------------------------------------------------------
(* Several requests handled at once by one worker *)

\* Largest max_requests configured where requests are handled at once.
MaxClients == 2

\* The handlers of the requests a worker has open at once.
ConcurrentHandlers == {"h1", "h2", "h3"}

ConcurrentOptions ==
    {Update(DefaultOptions, [max_requests |-> n]) : n \in 1..MaxClients}

\* A pass-through, a transformation, and a request validation rejects.
ConcurrentRequests ==
    {With(BaseArgs, [op |-> Str("noop")]),
     With(BaseArgs, [op |-> Str("rotate")]),
     With(BaseArgs, [url |-> FtpUrl])}

ConcurrentInit ==
    /\ options \in ConcurrentOptions
    /\ settings = PilboxApplication(options)
    /\ phase = [h \in ConcurrentHandlers |-> "idle"]
    /\ args = [h \in ConcurrentHandlers |-> NoArgs]
    /\ checks = [h \in ConcurrentHandlers |-> <<>>]
    /\ error = [h \in ConcurrentHandlers |-> Ok]
    /\ fetched = [h \in ConcurrentHandlers |-> <<>>]
    /\ resp = [h \in ConcurrentHandlers |-> NoResponse]
    /\ calls = [h \in ConcurrentHandlers |-> <<>>]
    /\ outBody = [h \in ConcurrentHandlers |-> <<>>]
    /\ outHeaders = [h \in ConcurrentHandlers |-> NoHeaders]
    /\ written = [h \in ConcurrentHandlers |-> NotWritten]
    /\ active = {}
    /\ queue = <<>>
    /\ LoopInit

\* The handlers run on one event loop: each step is one handler running
\* from a suspension point to the next, and a handler is suspended only
\* at the yield of its fetch.
ConcurrentNext ==
    \E h \in ConcurrentHandlers :
        \/ \E a \in ConcurrentRequests : Get(h, a)
        \/ \E c \in {"gaierror", "HTTPError", "timeout"} : FetchFailed(h, c)
        \/ \E r \in Responses : Render(h, r)
        \/ \E k \in 1..(MaxOps + 2) : RenderFault(h, FaultyResponse, k)
        \/ Finish(h)

ConcurrentSpec == ConcurrentInit /\ [][ConcurrentNext]_vars

-----------------------------------------------------------------------------
(* Shutdown on SIGTERM and SIGINT *)

MAX_WAIT_SECONDS_BEFORE_SHUTDOWN == 5

\* Most signals received.
MaxSignals == 2

\* Latest time a signal is received.
MaxSignalTime == 2

\* Most seconds the io loop runs a timeout after its time.
MaxLate == 1

\* The time up to which the clock is followed: every poll chain a signal
\* starts has stopped the loop by then.
MaxTime == MaxSignalTime + MAX_WAIT_SECONDS_BEFORE_SHUTDOWN + MaxLate + 1

\* The variables of the request handlers.
handlerVars ==
    <<options, settings, phase, args, checks, error, fetched, resp, calls,
      outBody, outHeaders, active, queue, written>>

\* sig_handler: the signal is logged and shutdown is handed to the io loop
\* with add_callback_from_signal.
SigHandler(sig) ==
    /\ sig \in {"SIGTERM", "SIGINT"}
    /\ running
    /\ now <= MaxSignalTime
    /\ Len(callbacks) + Len(deadlines) < MaxSignals
    /\ callbacks' = Append(callbacks, "shutdown")
    /\ UNCHANGED <<now, accepting, running, timeouts, deadlines, stop>>
    /\ UNCHANGED handlerVars

\* A mutant: shutdown drops the polls that are pending.
ShutdownDropsPolls ==
    /\ running
    /\ callbacks # <<>>
    /\ callbacks' = Tail(callbacks)
    /\ accepting' = FALSE
    /\ deadlines' = Append(deadlines, now + MAX_WAIT_SECONDS_BEFORE_SHUTDOWN)
    /\ timeouts' = <<[at |-> now + 1,
                      deadline |-> now + MAX_WAIT_SECONDS_BEFORE_SHUTDOWN,
                      chain |-> Len(deadlines) + 1]>>
    /\ UNCHANGED <<now, running, stop>>
    /\ UNCHANGED handlerVars

\* A mutant: stop_loop stops the io loop without looking at the deadline.
StopLoopAtOnce(deadline, chain, pending) ==
    /\ timeouts' = pending
    /\ running' = FALSE
    /\ stop' = [at |-> now, chain |-> chain]

\* stop_loop(deadline) run for a poll chain, with the other timeouts
\* pending: before the deadline it asks to be run again a second from now,
\* else it stops the io loop.
StopLoop(deadline, chain, pending) ==
    IF now < deadline
    THEN /\ timeouts' = Append(pending,
                [at |-> now + 1, deadline |-> deadline, chain |-> chain])
         /\ UNCHANGED <<running, stop>>
    ELSE /\ timeouts' = pending
         /\ running' = FALSE
         /\ stop' = [at |-> now, chain |-> chain]

\* The io loop runs shutdown: the http server stops listening, and
\* stop_loop is called with a deadline MAX_WAIT_SECONDS_BEFORE_SHUTDOWN
\* from now.
Shutdown ==
    /\ running
    /\ callbacks # <<>>
    /\ callbacks' = Tail(callbacks)
    /\ accepting' = FALSE
    /\ deadlines' = Append(deadlines, now + MAX_WAIT_SECONDS_BEFORE_SHUTDOWN)
    /\ StopLoop(now + MAX_WAIT_SECONDS_BEFORE_SHUTDOWN, Len(deadlines) + 1, timeouts)
    /\ UNCHANGED now
    /\ UNCHANGED handlerVars

\* The sequence q without its i-th element.
Without(q, i) == SubSeq(q, 1, i - 1) \o SubSeq(q, i + 1, Len(q))

\* The io loop runs its i-th timeout, which is due and is the first to run
\* of those pending: the one with the earliest time, and of those with the
\* same time the one added first.  stop_loop runs again.
RunTimeout(i) ==
    /\ running
    /\ i \in DOMAIN timeouts
    /\ timeouts[i].at <= now
    /\ \A j \in DOMAIN timeouts :
          \/ timeouts[i].at < timeouts[j].at
          \/ timeouts[i].at = timeouts[j].at /\ i <= j
    /\ StopLoop(timeouts[i].deadline, timeouts[i].chain, Without(timeouts, i))
    /\ UNCHANGED <<now, accepting, callbacks, deadlines>>
    /\ UNCHANGED handlerVars

\* A second passes.  The io loop runs its callbacks at once and its
\* timeouts at most MaxLate seconds after their time.
Tick ==
    /\ running
    /\ now < MaxTime
    /\ callbacks = <<>>
    /\ \A i \in DOMAIN timeouts : now < timeouts[i].at + MaxLate
    /\ now' = now + 1
    /\ UNCHANGED <<accepting, running, callbacks, timeouts, deadlines, stop>>
    /\ UNCHANGED handlerVars

\* The requests followed while the server shuts down.
ShutdownRequests ==
    {With(BaseArgs, [op |-> Str("noop")]), With(BaseArgs, [op |-> Str("rotate")])}

ShutdownInit ==
    /\ Init
    /\ options = DefaultOptions

ShutdownNext ==
    \/ \E sig \in {"SIGTERM", "SIGINT"} : SigHandler(sig)
    \/ Shutdown
    \/ \E i \in DOMAIN timeouts : RunTimeout(i)
    \/ Tick
    \/ \E h \in Handlers :
        \/ \E a \in ShutdownRequests : Get(h, a)
        \/ \E c \in {"gaierror", "HTTPError", "timeout"} : FetchFailed(h, c)
        \/ Render(h, FaultyResponse)
        \/ Finish(h)

ShutdownSpec == ShutdownInit /\ [][ShutdownNext]_vars

\* The io loop runs every callback and every due timeout it holds, and
\* time passes.
ShutdownFair ==
    /\ ShutdownSpec
    /\ WF_vars(Tick)
    /\ WF_vars(Shutdown)
    /\ WF_vars(\E i \in DOMAIN timeouts : RunTimeout(i))

-----------------------------------------------------------------------------
(* Properties *)

\* The arguments of handler h's request as the checks see them.
OpsOf(h) == GetOperations(settings, args[h])
UrlOf(h) == GetArgument(args[h], "url")

\* The handler has a request: it is waiting for its fetch or has ended.
Busy(h) == phase[h] # "idle"

\* The request of h ended in validate_request.
Rejected(h) == phase[h] = "finished" /\ error[h] # Ok /\ fetched[h] = <<>>

\* C1: the fetch of a request is started only after validate_request has
\* returned normally.  A request that any check rejects ends with that
\* check's error and no url is ever handed to the http client for it; a
\* request for which a url was handed over passed all seven checks; and a
\* request naming an operation outside allowed_operations ends with
\* OperationError and no fetch.
C1_NoFetchBeforeValidation ==
    \A h \in Handlers :
        /\ (Busy(h) /\ ValidateRequest(settings, args[h]).result # Ok) =>
              /\ Rejected(h)
              /\ error[h] = ValidateRequest(settings, args[h]).result
        /\ fetched[h] # <<>> =>
              /\ checks[h] = CheckNames
              /\ \A i \in 1..7 : CheckResult(settings, args[h], i) = Ok
        /\ (Busy(h) /\ ~(ToSet(OpsOf(h)) \subseteq settings.allowed_operations)) =>
              /\ Rejected(h)
              /\ error[h].kind = "OperationError"

\* C1 witness: a request naming an operation that is not allowed has ended
\* with OperationError and without any fetch.
C1_Witness ==
    \E h \in Handlers :
        /\ phase[h] = "finished"
        /\ ~(ToSet(OpsOf(h)) \subseteq settings.allowed_operations)
        /\ error[h].kind = "OperationError"
        /\ fetched[h] = <<>>

\* The checks of validate_request that the request of h violates, in the
\* order the specification gives: operation, url, signature, client, host,
\* per-operation arguments, option sanity.
Violates(h) ==
    <<ValidateOperation(settings, args[h]) # Ok,
      ValidateUrl(settings, args[h]) # Ok,
      ValidateSignature(settings, args[h]) # Ok,
      ValidateClient(settings, args[h]) # Ok,
      ValidateHost(settings, args[h]) # Ok,
      ValidateArguments(settings, args[h]) # Ok,
      ValidateOptions(MergedOptions(settings, args[h])) # Ok>>

ErrorOfCheck ==
    <<"OperationError", "UrlError", "SignatureError", "ClientError",
      "HostError", "DimensionsError", "OptionsError">>

\* C2: the checks run in the order operation, url, signature, client, host,
\* per-operation arguments, option sanity.  Of a request that violates one
\* or more checks, the error is that of the earliest violated check, and
\* the checks that ran are exactly those up to it.
C2_FirstFailingCheckDecides ==
    \A h \in Handlers : \A i \in 1..7 :
        (Busy(h) /\ Violates(h)[i] /\ \A j \in 1..(i - 1) : ~Violates(h)[j]) =>
            /\ error[h].kind = ErrorOfCheck[i]
            /\ checks[h] = SubSeq(CheckNames, 1, i)

\* C2 witness: a request with both a bad signature and a wrong client, and
\* nothing wrong before them, has ended with SignatureError.
C2_Witness ==
    \E h \in Handlers :
        /\ phase[h] = "finished"
        /\ ~Violates(h)[1] /\ ~Violates(h)[2]
        /\ Violates(h)[3] /\ Violates(h)[4] /\ Violates(h)[5]
        /\ error[h].kind = "SignatureError"

\* C3: with allowed_hosts non-empty, a request whose url names a host
\* outside it (or no host) is rejected without a fetch, with HostError when
\* the four checks before the host check pass; and no url handed to the
\* http client, after the implicit base url is applied, names a host
\* outside allowed_hosts.
C3_NoFetchOutsideAllowedHosts ==
    \A h \in Handlers :
        settings.allowed_hosts # {} =>
            /\ \A i \in DOMAIN fetched[h] :
                  Hostname(fetched[h][i]) \in settings.allowed_hosts
            /\ (Busy(h) /\ Hostname(UrlOf(h)) \notin settings.allowed_hosts) =>
                  /\ Rejected(h)
                  /\ (\A j \in 1..4 : ~Violates(h)[j]) => error[h].kind = "HostError"

\* C3 witness: with allowed_hosts and an implicit base url configured, a
\* root-relative url has passed the url check and ended with HostError.
C3_Witness ==
    \E h \in Handlers :
        /\ settings.allowed_hosts # {}
        /\ Truthy(settings.implicit_base_url)
        /\ StartsWith(UrlOf(h), <<"/">>)
        /\ phase[h] = "finished"
        /\ error[h].kind = "HostError"
        /\ fetched[h] = <<>>

\* The transforms among the calls made for h.
TransformCalls(h) ==
    SelectSeq(calls[h], LAMBDA c : c.name \notin {"decode", "save"})

\* C4 (as claimed): a request whose operation list has more entries than
\* max_operations ends with OperationError, and no request makes the
\* pipeline run more than max_operations transforms.
C4_AtMostMaxOperations ==
    \A h \in Handlers :
        /\ (Busy(h) /\ Len(OpsOf(h)) > settings.max_operations) =>
              /\ Rejected(h)
              /\ error[h].kind = "OperationError"
        /\ Len(TransformCalls(h)) <= settings.max_operations

\* The url check ran for the request of h and raised.
UrlCheckRaised(h) == checks[h] = SubSeq(CheckNames, 1, 2) /\ error[h] # Ok

\* C5: the url check accepts a request exactly when the url argument is
\* present, non-empty and begins with http:// or https://, or begins with /
\* while an implicit base url is configured; every other request it sees
\* ends with UrlError.
C5_UrlShape ==
    \A h \in Handlers :
        (Busy(h) /\ Len(checks[h]) >= 2) =>
            LET url == UrlOf(h)
                shape ==
                    /\ url # None
                    /\ url # <<>>
                    /\ \/ StartsWith(url, <<"http:", "/", "/">>)
                       \/ StartsWith(url, <<"https:", "/", "/">>)
                       \/ /\ settings.implicit_base_url \notin {None, <<>>}
                          /\ Head(url) = "/"
            IN  /\ shape <=> ~UrlCheckRaised(h)
                /\ UrlCheckRaised(h) => error[h].kind = "UrlError" /\ Rejected(h)

\* C5 witness: a root-relative url without an implicit base url has ended
\* with UrlError.
C5_Witness ==
    \E h \in Handlers :
        /\ phase[h] = "finished"
        /\ StartsWith(UrlOf(h), <<"/">>)
        /\ ~Truthy(settings.implicit_base_url)
        /\ UrlCheckRaised(h)
        /\ error[h].kind = "UrlError"

\* The width or height v is given as a number above the limit.
Exceeds(v, limit) == IsDigits(v) /\ ToInt(v) > limit

\* C6: a request whose operations (the op argument, or the configured or
\* built-in default when op is absent) include resize, and whose w exceeds
\* max_resize_width or whose h exceeds max_resize_height, is rejected before
\* any fetch, with DimensionsError when the five checks before pass; and
\* every resize the pipeline runs has a width and a height, where given,
\* within the limits.
C6_ResizeWithinLimits ==
    \A h \in Handlers :
        /\ (/\ Busy(h)
            /\ <<"resize">> \in ToSet(OpsOf(h))
            /\ \/ Exceeds(GetArgument(args[h], "w"), settings.max_resize_width)
               \/ Exceeds(GetArgument(args[h], "h"), settings.max_resize_height)) =>
              /\ Rejected(h)
              /\ (\A j \in 1..5 : ~Violates(h)[j]) => error[h].kind = "DimensionsError"
        /\ \A i \in DOMAIN calls[h] :
              calls[h][i].name = "resize" =>
                  /\ ~Exceeds(calls[h][i].argv[1], settings.max_resize_width)
                  /\ ~Exceeds(calls[h][i].argv[2], settings.max_resize_height)

\* C6 witness: a request without op (resize by default) whose width is
\* within the limit and whose height is above it has ended with
\* DimensionsError and without a fetch.
C6_Witness ==
    \E h \in Handlers :
        /\ phase[h] = "finished"
        /\ args[h]["op"] = None
        /\ <<"resize">> \in ToSet(OpsOf(h))
        /\ IsDigits(GetArgument(args[h], "w"))
        /\ ~Exceeds(GetArgument(args[h], "w"), settings.max_resize_width)
        /\ Exceeds(GetArgument(args[h], "h"), settings.max_resize_height)
        /\ error[h].kind = "DimensionsError"
        /\ fetched[h] = <<>>

\* C7 (as claimed): a request naming watermark passes validation only if
\* watermark_img or watermark_txt is present, watermark_img, if given,
\* starts with http:// or https://, and watermark_txt, if given, is not
\* empty.
C7_WatermarkArguments ==
    \A h \in Handlers :
        (<<"watermark">> \in ToSet(OpsOf(h)) /\ fetched[h] # <<>>) =>
            LET img == GetArgument(args[h], "watermark_img")
                txt == GetArgument(args[h], "watermark_txt")
            IN  /\ img # None \/ txt # None
                /\ img # None =>
                      \/ StartsWith(img, <<"http:", "/", "/">>)
                      \/ StartsWith(img, <<"https:", "/", "/">>)
                /\ txt # None => txt # <<>>

\* C8: an accepted request whose operations include noop, alone or with
\* others, makes no call on the image library; the body written is the
\* fetched bytes and the Content-Type set is the upstream one (none is set
\* when upstream gave none), whatever fmt, the default format and
\* content_type_from_image are.
C8_NoopPassesThrough ==
    \A h \in Handlers :
        (<<"noop">> \in ToSet(OpsOf(h)) /\ phase[h] = "finished" /\ error[h] = Ok) =>
            /\ calls[h] = <<>>
            /\ outBody[h] = resp[h].buffer
            /\ outHeaders[h]["Content-Type"] = resp[h].headers["Content-Type"]

\* C8 witness: a request naming noop after another operation, with fmt
\* given, has been answered with fetched bytes and an upstream Content-Type.
C8_Witness ==
    \E h \in Handlers :
        /\ phase[h] = "finished" /\ error[h] = Ok
        /\ Len(OpsOf(h)) = 2 /\ OpsOf(h)[2] = <<"noop">>
        /\ Truthy(GetArgument(args[h], "fmt"))
        /\ resp[h].buffer # <<>>
        /\ outBody[h] = resp[h].buffer
        /\ Truthy(outHeaders[h]["Content-Type"])

\* The names of the calls made for h, and of those its operation list asks for.
CallNames(h) == [i \in 1..Len(calls[h]) |-> <<calls[h][i].name>>]
AskedNames(h) == <<<<"decode">>>> \o OpsOf(h) \o <<<<"save">>>>

\* C9: for an accepted request whose operations do not include noop, the
\* calls on the image library are one decode, then one transform per entry
\* of the operation list, in the order of the list and once per
\* occurrence, then one save: the calls made so far are always a prefix of
\* that sequence, and are all of it when the response was written.
C9_TransformsInListOrder ==
    \A h \in Handlers :
        (phase[h] = "finished" /\ fetched[h] # <<>>
         /\ <<"noop">> \notin ToSet(OpsOf(h))) =>
            /\ Len(CallNames(h)) <= Len(AskedNames(h))
            /\ CallNames(h) = SubSeq(AskedNames(h), 1, Len(CallNames(h)))
            /\ (error[h] = Ok) => CallNames(h) = AskedNames(h)

\* C9 witness: the request "rotate,resize" was answered after the calls
\* decode, rotate, resize, save.
C9_Witness ==
    \E h \in Handlers :
        /\ phase[h] = "finished" /\ error[h] = Ok
        /\ OpsOf(h) = <<<<"rotate">>, <<"resize">>>>
        /\ CallNames(h) = <<<<"decode">>, <<"rotate">>, <<"resize">>, <<"save">>>>

\* The argument a field of the resolved options is read from.
ArgOfOption(k) ==
    CASE k = "position" -> "pos"
      [] k = "background" -> "bg"
      [] k = "format" -> "fmt"
      [] k = "optimize" -> "opt"
      [] k = "quality" -> "q"
      [] k = "progressive" -> "prog"
      [] k = "preserve_exif" -> "exif"
      [] OTHER -> k

\* The default configured for a field, None when there is none.
ConfiguredDefault(k) == IF k \in DOMAIN options THEN options[k] ELSE None

\* C10 (as claimed): every field of the options a transform or the save
\* receives is the request's value when that is given and not empty, else
\* the configured default, else absent (None).
C10_OptionResolution ==
    \A h \in Handlers : \A i \in DOMAIN calls[h] : \A k \in DOMAIN calls[h][i].opts :
        LET v == GetArgument(args[h], ArgOfOption(k))
        IN  calls[h][i].opts[k] = IF Truthy(v) THEN v ELSE ConfiguredDefault(k)

\* The request of h was answered with a body (no error of any kind).
Succeeded(h) == phase[h] = "finished" /\ error[h] = Ok /\ fetched[h] # <<>>

\* The request or the configuration asks for a Content-Type by format.
WantsTypeByFormat(h) ==
    \/ Truthy(GetArgument(args[h], "fmt"))
    \/ Truthy(settings.format)
    \/ settings.content_type_from_image = TRUE

\* The output format the pipeline declares for the request of h: none on
\* the pass-through, else the format the save was given, else the source's.
DeclaredFormat(h) ==
    IF calls[h] = <<>> THEN None
    ELSE IF Truthy(calls[h][Len(calls[h])].opts.format)
    THEN calls[h][Len(calls[h])].opts.format
    ELSE BufferFormat(resp[h].buffer)

\* C11 (as claimed): in every successful response, when fmt is given, or a
\* default format is configured, or content_type_from_image is set, the
\* Content-Type is the one the table assigns to the declared output format;
\* otherwise it is the upstream Content-Type.
C11_ContentTypeAsClaimed ==
    \A h \in Handlers :
        Succeeded(h) =>
            outHeaders[h]["Content-Type"] =
                IF WantsTypeByFormat(h)
                THEN FormatToMime(Lower(DeclaredFormat(h)))
                ELSE resp[h].headers["Content-Type"]

\* C11: in every successful response, when the pipeline declared a format
\* (the operations do not include noop) and fmt is given and not empty,
\* or a default format is configured, or content_type_from_image is set,
\* the Content-Type is the entry of the table for the lower-cased declared
\* format; in every other successful response, the pass-through included,
\* it is the upstream Content-Type, and none is set when upstream gave none.
C11_ContentType ==
    \A h \in Handlers :
        Succeeded(h) =>
            IF WantsTypeByFormat(h) /\ <<"noop">> \notin ToSet(OpsOf(h))
            THEN /\ outHeaders[h]["Content-Type"] = FormatToMime(Lower(DeclaredFormat(h)))
                 /\ outHeaders[h]["Content-Type"] # None
            ELSE outHeaders[h]["Content-Type"] = resp[h].headers["Content-Type"]

\* C11 witness: with content_type_from_image set and no fmt, a png source
\* that upstream served as image/jpeg was transformed and answered as
\* image/png.
C11_Witness ==
    \E h \in Handlers :
        /\ Succeeded(h)
        /\ settings.content_type_from_image = TRUE
        /\ ~Truthy(GetArgument(args[h], "fmt"))
        /\ calls[h] # <<>>
        /\ resp[h].headers["Content-Type"] = <<"image/jpeg">>
        /\ outHeaders[h]["Content-Type"] = <<"image/png">>

\* The handlers whose fetch waits in the client.
Waiting == {queue[i] : i \in DOMAIN queue}

C13_FetchFailureEndsRequest ==
    \A h \in Handlers :
        /\ Len(fetched[h]) <= 1
        /\ (fetched[h] # <<>> /\ phase[h] = "fetching") => error[h] = Ok
        /\ (phase[h] = "finished" /\ fetched[h] # <<>> /\ resp[h] = NoResponse) =>
              /\ error[h].kind = "FetchError"
              /\ calls[h] = <<>>
              /\ outBody[h] = <<>>
              /\ outHeaders[h] = NoHeaders
        /\ error[h].kind = "FetchError" =>
              /\ phase[h] = "finished"
              /\ Len(fetched[h]) = 1
              /\ resp[h] = NoResponse

\* C13 witness: a request that names a transformation has ended with
\* FetchError after one fetch.
C13_Witness ==
    \E h \in Handlers :
        /\ phase[h] = "finished"
        /\ error[h].kind = "FetchError"
        /\ <<"noop">> \notin ToSet(OpsOf(h))
        /\ Len(fetched[h]) = 1
        /\ calls[h] = <<>>

\* C14 (as claimed): once the io loop is stopped, it was stopped at or
\* before the deadline, MAX_WAIT_SECONDS_BEFORE_SHUTDOWN seconds after the
\* start of draining.
C14_StoppedByDeadline ==
    ~running => stop.at <= deadlines[1]

\* C14: from the moment shutdown runs the server no longer accepts
\* connections; while the io loop runs, a request in flight can still be
\* answered; every signal leads to the io loop being stopped; and the loop
\* is stopped by the first poll that runs at or after the deadline,
\* MAX_WAIT_SECONDS_BEFORE_SHUTDOWN seconds after the start of draining:
\* never before the deadline, and after it by as much as that poll is late.
C14_GracefulShutdown ==
    /\ [](deadlines # <<>> => ~accepting)
    /\ [](\A h \in Handlers :
            (running /\ phase[h] = "fetching") => ENABLED Render(h, FaultyResponse))
    /\ [](running /\ deadlines # <<>> => now <= deadlines[1] + MaxLate)
    /\ [](~running =>
            /\ deadlines # <<>>
            /\ stop.at >= deadlines[1]
            /\ stop.at <= deadlines[1] + MaxLate)
    /\ (callbacks # <<>> ~> ~running)

\* C14 witness: the io loop was stopped after the deadline, by a poll that
\* ran late, while a request was still waiting for its fetch.
C14_Witness ==
    /\ ~running
    /\ ~accepting
    /\ stop.at > deadlines[1]
    /\ \E h \in Handlers : phase[h] = "fetching"

\* The failures the error handling design names.
Taxonomy ==
    {"UrlError", "OperationError", "SignatureError", "ClientError",
     "HostError", "DimensionsError", "FetchError"}

\* C15: a request that ends with an error of the taxonomy is answered with
\* the status of that error and a JSON body whose fields are exactly
\* status_code, error_code and error, holding that status, the code of
\* the error and its message; a request that ends with any other
\* exception of the pipeline is answered with status 500 and a body with
\* no field of the exception; a request without error has no error
\* response.
C15_ErrorRendering ==
    \A h \in Handlers :
        /\ error[h].kind \in Taxonomy =>
              /\ written[h].status = StatusOf(error[h])
              /\ written[h].type = <<"application/json">>
              /\ DOMAIN written[h].body = {"status_code", "error_code", "error"}
              /\ written[h].body["status_code"] = written[h].status
              /\ written[h].body["error_code"] = GetCode(error[h])
              /\ written[h].body["error"] = <<error[h].msg>>
        /\ error[h] = ServerError =>
              /\ written[h].status = <<"500">>
              /\ written[h].type # <<"application/json">>
              /\ DOMAIN written[h].body = {}
        /\ error[h] = Ok => written[h] = NotWritten

\* C15 witness: a transformation stopped by a fault of the image library
\* was answered with the plain 500.
C15_Witness ==
    \E h \in Handlers :
        /\ phase[h] = "finished"
        /\ error[h] = ServerError
        /\ calls[h] # <<>>
        /\ written[h].status = <<"500">>
        /\ DOMAIN written[h].body = {}

\* No request is being handled and the io loop holds no callback.
Quiescent ==
    /\ \A h \in Handlers : phase[h] = "idle"
    /\ callbacks = <<>>

\* A step in which one of the pending polls runs.
PollRuns ==
    /\ running
    /\ \E i \in DOMAIN timeouts :
          \A j \in DOMAIN timeouts' : timeouts'[j] # timeouts[i]

\* C16 (as claimed): a poll that runs while the server is quiescent stops
\* the io loop, whether or not the deadline has passed.
C16_StopsWhenQuiescent ==
    [][(PollRuns /\ Quiescent) => ~running']_vars

\* The fetched bytes were returned as they are, with no call on the image
\* library.
PassedThrough(h) == calls[h] = <<>> /\ outBody[h] = resp[h].buffer

\* The fetched bytes were decoded once, every operation of the list was
\* applied in the order of the list, and the result was encoded once, with
\* the save options.
Transformed(h) ==
    /\ CallNames(h) = AskedNames(h)
    /\ calls[h][1] = ImageDecode(resp[h].buffer)
    /\ calls[h][Len(calls[h])] = ImageSave(settings, args[h])
    /\ outBody[h] = Encoded(resp[h].buffer, calls[h])

\* C17 (as claimed): of the successful requests, those whose operation
\* list names noop and nothing else are passed through, and every other
\* one is transformed.
C17_PassThroughOnlyForNoopAlone ==
    \A h \in Handlers :
        Succeeded(h) =>
            IF ToSet(OpsOf(h)) = {<<"noop">>} THEN PassedThrough(h)
            ELSE Transformed(h)

\* C17: of the successful requests, those whose operation list names noop,
\* alone or among other operations, are passed through, and none of the
\* other operations named is applied; those whose list does not name noop
\* are transformed: one decode, the operations in the order of the list,
\* one encode with the save options.
C17_PassThroughWheneverNoop ==
    \A h \in Handlers :
        Succeeded(h) =>
            IF <<"noop">> \in ToSet(OpsOf(h)) THEN PassedThrough(h)
            ELSE Transformed(h) /\ ~PassedThrough(h)

\* C17 witness: a request that names an operation and then noop, with no
\* fmt, was answered with the fetched bytes and no call on the image
\* library.
C17_Witness ==
    \E h \in Handlers :
        /\ Succeeded(h)
        /\ Len(OpsOf(h)) = 2
        /\ OpsOf(h)[1] # <<"noop">> /\ OpsOf(h)[2] = <<"noop">>
        /\ GetArgument(args[h], "fmt") = None
        /\ PassedThrough(h)

\* The options the option check of the request of h was given.
CheckedOptions(h) == MergedOptions(settings, args[h])

\* The option check ran for the request of h and raised nothing.
OptionsChecked(h) ==
    /\ checks[h] = CheckNames
    /\ ValidateOptions(CheckedOptions(h)) = Ok

\* The option k of a call was given to the option check with this value.
CheckedAs(h, k, v) ==
    k \in DOMAIN CheckedOptions(h) /\ CheckedOptions(h)[k] = v

\* C18 (as claimed): every option that a call on the image library
\* receives was among the options the option check passed before the
\* fetch, with the value the call receives.
C18_EveryOptionChecked ==
    \A h \in Handlers : \A i \in DOMAIN calls[h] :
        /\ fetched[h] # <<>> /\ OptionsChecked(h)
        /\ \A k \in DOMAIN calls[h][i].opts : CheckedAs(h, k, calls[h][i].opts[k])

\* C18: a call on the image library is made only after the option check
\* passed and the fetch was made; every option that resize, rotate or the
\* save receives, and every option watermark receives other than
\* watermark_txt and watermark_img, was among the options checked, with
\* the value the call receives; watermark_txt and watermark_img are not
\* given to the option check.
C18_OptionsCheckedExceptWatermarkSource ==
    \A h \in Handlers : \A i \in DOMAIN calls[h] :
        /\ fetched[h] # <<>> /\ OptionsChecked(h)
        /\ \A k \in DOMAIN calls[h][i].opts :
              IF k \in {"watermark_txt", "watermark_img"}
              THEN calls[h][i].name = "watermark" /\ k \notin DOMAIN CheckedOptions(h)
              ELSE CheckedAs(h, k, calls[h][i].opts[k])

\* C18 witness: a request was answered after a resize that was given a
\* mode and a watermark that was given a text.
C18_Witness ==
    \E h \in Handlers :
        /\ Succeeded(h)
        /\ \E i \in DOMAIN calls[h] :
              calls[h][i].name = "watermark" /\ Truthy(calls[h][i].opts["watermark_txt"])
        /\ \E i \in DOMAIN calls[h] :
              calls[h][i].name = "resize" /\ Truthy(calls[h][i].opts["mode"])

\* What is kept for the request of h.
Own(h) ==
    <<phase[h], args[h], checks[h], error[h], fetched[h], resp[h], calls[h],
      outBody[h], outHeaders[h], written[h]>>

\* The outcome of the request of h is the one its own arguments, the
\* settings and its own fetch result give.
OwnOutcome(h) ==
    LET v == ValidateRequest(settings, args[h])
        p == ProcessResponse(settings, args[h], resp[h])
    IN  /\ phase[h] # "idle" =>
              /\ checks[h] = v.ran
              /\ fetched[h] = IF v.result = Ok THEN <<FetchUrl(settings, args[h])>>
                              ELSE <<>>
              /\ v.result # Ok => error[h] = v.result
        /\ (phase[h] = "finished" /\ error[h] # Ok) =>
              /\ written[h] = WriteError(error[h])
              /\ outBody[h] = <<>>
              /\ outHeaders[h] = NoHeaders
        /\ (phase[h] = "finished" /\ error[h] = Ok) =>
              /\ calls[h] = p.calls
              /\ outBody[h] = p.outfile
              /\ outHeaders[h] = SetHeaders(settings, args[h], resp[h].headers, p.format)
              /\ written[h] = NotWritten
        /\ error[h] = ServerError =>
              /\ Len(calls[h]) <= Len(p.calls)
              /\ calls[h] = SubSeq(p.calls, 1, Len(calls[h]))

\* C19: with several requests open at once and their steps interleaved in
\* every order, no step changes the settings, every step changes what is
\* kept for at most one request, and the outcome of every request is the
\* one its own arguments, the settings and its own fetch result give.
C19_RequestsDoNotInterfere ==
    /\ [][/\ settings' = settings
          /\ options' = options
          /\ \A h, g \in ConcurrentHandlers :
                (Own(h)' # Own(h) /\ Own(g)' # Own(g)) => h = g]_vars
    /\ [](\A h \in ConcurrentHandlers : OwnOutcome(h))

\* C19 witness: a transformation was answered while a request with other
\* arguments still waits for its fetch and a third request was rejected.
C19_Witness ==
    \E h, g, f \in ConcurrentHandlers :
        /\ phase[h] = "finished" /\ error[h] = Ok /\ calls[h] # <<>>
        /\ phase[g] = "fetching" /\ g \in active /\ args[g] # args[h]
        /\ phase[f] = "finished" /\ error[f].kind = "UrlError"

\* The pending polls of the chain the c-th run of shutdown started.
PollsOf(c) == {i \in DOMAIN timeouts : timeouts[i].chain = c}

\* C20 (as claimed): the io loop is stopped by a poll of the chain the
\* first signal started.
C20_StoppedByFirstChain ==
    ~running => stop.chain = 1

\* C20: a later run of shutdown computes a deadline that is not earlier
\* than the first and leaves the first chain as it is: while the io loop
\* runs, the first chain has one poll pending, with the first deadline and
\* a time not after it; the io loop is stopped at or after the first
\* deadline, by the first poll of the first chain that runs then, or by a
\* poll of a later chain that runs ahead of it, at a time when the poll of
\* the first chain is due as well, and finds its own deadline passed.
C20_LaterSignalsDoNotPostpone ==
    /\ \A c \in DOMAIN deadlines : deadlines[c] >= deadlines[1]
    /\ (running /\ deadlines # <<>>) =>
          /\ Cardinality(PollsOf(1)) = 1
          /\ \A i \in PollsOf(1) :
                /\ timeouts[i].deadline = deadlines[1]
                /\ timeouts[i].at <= deadlines[1]
    /\ ~running =>
          /\ stop.at >= deadlines[1]
          /\ stop.at >= deadlines[stop.chain]
          /\ stop.chain # 1 =>
                \E i \in PollsOf(1) : timeouts[i].at <= stop.at

\* C20 witness: after two signals the io loop was stopped by the first
\* chain, before the deadline the second run of shutdown computed.
C20_Witness ==
    /\ ~running
    /\ Len(deadlines) = 2
    /\ stop.chain = 1
    /\ stop.at < deadlines[2]

====
